---- MODULE Spec2Model ----
(***************************************************************************)
(* State-machine model of the Help-Others HTTP backend (src/main.py).      *)
(*                                                                         *)
(* The two collaborators are modelled by their contents:                   *)
(*   accounts       the Identity Provider: email -> [uid, phone_number]    *)
(*   users          the "users" collection:         document id -> fields  *)
(*   help_requests  the "help_requests" collection: document id -> fields  *)
(* A document is a record holding exactly the fields that were written, so *)
(* a help request has no volunteer_id field until an update adds one.      *)
(*                                                                         *)
(* register_user is an async handler without an await: it runs on the      *)
(* event loop, one call at a time, but the handlers declared with a plain  *)
(* def run on worker threads and interleave with its two collaborator      *)
(* calls.  accept_request also makes two collaborator calls (get, update). *)
(* Both are therefore split at the boundary between their calls; every     *)
(* other handler makes one collaborator call and is one step.              *)
(*                                                                         *)
(* Collaborator calls are answered from the collaborator's contents: the   *)
(* model has no network faults.  Strings that the code transforms (phone   *)
(* numbers) are sequences of characters.                                   *)
(***************************************************************************)
EXTENDS Naturals, Sequences, FiniteSets, TLC

VARIABLES db, accounts, users, help_requests, uuids, reg, acc, out

vars == <<db, accounts, users, help_requests, uuids, reg, acc, out>>

-----------------------------------------------------------------------------
(* Bounds and input sets *)

\* number of uuid.uuid4() results drawn in one behaviour
MaxUuid == 3

Names == {"ann"}
Emails == {"a@x", "b@x"}
Phones == {<<"5">>, <<"+", "5">>}
Filenames == {"id.png"}
Volunteers == {"v1", "v2"}

\* request bodies accepted by the HelpRequest model (four string fields)
HelpRequest ==
  {[user_id |-> "ghost", category |-> "food", description |-> "d", location |-> "l"]}

-----------------------------------------------------------------------------
(* Identifiers *)

\* the n-th value returned by uuid.uuid4() in this process
Uuid(n) == <<"uuid", n>>

\* the n-th uid assigned by the Identity Provider
Uid(n) == <<"uid", n>>

\* a generator that repeats its first value
uuid4_repeated == Uuid(1)

\* uuid.uuid4(): a value distinct from every value drawn before
uuid4 == Uuid(uuids + 1)

\* request ids a client may send to accept_request
RequestIds == {Uuid(n) : n \in 1..MaxUuid}

\* phones a client may send to login
LoginPhones == Phones \cup {<<"+">> \o p : p \in Phones}

-----------------------------------------------------------------------------
(* Identity Provider *)

\* the phone passed to the provider as supplied
PhoneNumber_unprefixed(phone) == phone

\* f"+{phone}"
PhoneNumber(phone) == <<"+">> \o phone

\* a provider call that never reports a duplicate
EmailAlreadyExists_never(email) == FALSE

\* auth.create_user raises EmailAlreadyExistsError
EmailAlreadyExists(email) == email \in DOMAIN accounts

\* a provider that hands out the same uid again
NewUid_reused == Uid(1)

\* the uid the provider assigns to a new account
NewUid == Uid(Cardinality(DOMAIN accounts) + 1)

\* auth.create_user(email=..., phone_number=...): the provider's accounts afterwards
create_user(email, phone_number) ==
  [e \in DOMAIN accounts \cup {email} |->
     IF e = email THEN [uid |-> NewUid, phone_number |-> phone_number]
                  ELSE accounts[e]]

-----------------------------------------------------------------------------
(* Document Store *)

\* document(id).set(data): the collection afterwards
set(collection, id, data) ==
  [d \in DOMAIN collection \cup {id} |-> IF d = id THEN data ELSE collection[d]]

\* an update that is applied only to a request that is still open
update_if_open(doc, fields) == IF doc.status = "open" THEN fields @@ doc ELSE doc

\* document(id).update(fields): the document afterwards (named fields replaced
\* or added, the others kept)
update(doc, fields) == fields @@ doc

\* an existence check that always passes
exists_always(request_id) == TRUE

\* request_ref.get().exists
exists(request_id) == request_id \in DOMAIN help_requests

\* a query without the status filter
OpenRequests_unfiltered == DOMAIN help_requests

\* collection("help_requests").where("status", "==", "open").stream()
OpenRequests == {id \in DOMAIN help_requests : help_requests[id].status = "open"}

-----------------------------------------------------------------------------
(* Handler state *)

RegIdle == [pc |-> "idle"]

AccIdle == [pc |-> "idle"]

NoResponse == [op |-> "none", status_code |-> 0]

NotInitialized(op) ==
  [op |-> op, status_code |-> 500, detail |-> "Firebase is not initialized."]

Init ==
  /\ db \in BOOLEAN
  /\ accounts = <<>>
  /\ users = <<>>
  /\ help_requests = <<>>
  /\ uuids = 0
  /\ reg = RegIdle
  /\ acc = [v \in Volunteers |-> AccIdle]
  /\ out = NoResponse

-----------------------------------------------------------------------------
(* POST /register/ *)

\* the locally generated candidate kept as the id
AssignedId_candidate(candidate, user) == candidate

\* user_id = user.uid: the id used from here on
AssignedId(candidate, user) == user.uid

\* the profile document mirrored into the store
user_data(name, email, phone, id_proof_filename) ==
  [name |-> name, email |-> email, phone |-> phone,
   id_proof |-> id_proof_filename, verified |-> FALSE]

\* register_user up to and including auth.create_user
register_user(name, email, phone, id_proof) ==
  /\ reg.pc = "idle"
  /\ IF ~db
     THEN /\ out' = NotInitialized("register")
          /\ UNCHANGED <<db, accounts, users, help_requests, uuids, reg, acc>>
     ELSE /\ uuids < MaxUuid
          /\ uuids' = uuids + 1
          /\ LET user_id == uuid4
                 id_proof_filename == <<user_id, id_proof>>
             IN IF EmailAlreadyExists(email)
                THEN /\ out' = [op |-> "register", status_code |-> 400,
                                detail |-> "Email already registered"]
                     /\ UNCHANGED <<accounts, reg>>
                ELSE /\ accounts' = create_user(email, PhoneNumber(phone))
                     /\ reg' = [pc |-> "set", name |-> name, email |-> email,
                                phone |-> phone, candidate |-> user_id,
                                id_proof_filename |-> id_proof_filename,
                                user_id |-> AssignedId(user_id, accounts'[email])]
                     /\ UNCHANGED out
          /\ UNCHANGED <<db, users, help_requests, acc>>

\* register_user from db.collection("users").document(user_id).set(...) to the return
register_user_set ==
  /\ reg.pc = "set"
  /\ users' = set(users, reg.user_id,
                  user_data(reg.name, reg.email, reg.phone, reg.id_proof_filename))
  /\ out' = [op |-> "register", status_code |-> 200,
             message |-> "User registered successfully", user_id |-> reg.user_id]
  /\ reg' = RegIdle
  /\ UNCHANGED <<db, accounts, help_requests, uuids, acc>>

-----------------------------------------------------------------------------
(* POST /login *)

\* the try block of login_user: the value it returns or the exception it raises
login_try(email, phone) ==
  IF email \notin DOMAIN accounts
  THEN [raised |-> "UserNotFoundError",
        str |-> "No user record found for the provided email."]
  ELSE LET user == accounts[email]
       IN IF user.phone_number # phone
          THEN [raised |-> "HTTPException",
                status_code |-> 401,
                str |-> "401: Invalid credentials"]
          ELSE [raised |-> "none", status_code |-> 200,
                message |-> "Login successful", user_id |-> user.uid]

\* except Exception as e: catches whatever the try block raised
login_except(r) ==
  IF r.raised # "none"
  THEN [op |-> "login", status_code |-> 400, detail |-> r.str]
  ELSE [op |-> "login", status_code |-> 200, message |-> r.message, user_id |-> r.user_id]

login_user(email, phone) ==
  /\ out' = IF ~db THEN NotInitialized("login") ELSE login_except(login_try(email, phone))
  /\ UNCHANGED <<db, accounts, users, help_requests, uuids, reg, acc>>

-----------------------------------------------------------------------------
(* POST /request_help/ *)

\* request.dict() with request_data["status"] = "open"
request_data(request) == [status |-> "open"] @@ request

request_help(request) ==
  /\ IF ~db
     THEN /\ out' = NotInitialized("request_help")
          /\ UNCHANGED <<help_requests, uuids>>
     ELSE /\ uuids < MaxUuid
          /\ uuids' = uuids + 1
          /\ LET request_id == uuid4
             IN /\ help_requests' = set(help_requests, request_id, request_data(request))
                /\ out' = [op |-> "request_help", status_code |-> 200,
                           message |-> "Help request created successfully",
                           request_id |-> request_id]
  /\ UNCHANGED <<db, accounts, users, reg, acc>>

-----------------------------------------------------------------------------
(* GET /view_requests/ *)

\* {"request_id": req.id, **req.to_dict()}
Listed(id, doc) == doc @@ [request_id |-> id]

view_requests ==
  /\ out' = IF ~db THEN NotInitialized("view_requests")
            ELSE [op |-> "view_requests", status_code |-> 200,
                  requests |-> {Listed(id, help_requests[id]) : id \in OpenRequests}]
  /\ UNCHANGED <<db, accounts, users, help_requests, uuids, reg, acc>>

-----------------------------------------------------------------------------
(* POST /accept_request/ *)

\* the fields written by request_ref.update
AcceptFields(volunteer_id) == [status |-> "accepted", volunteer_id |-> volunteer_id]

\* accept_request up to and including the existence check; volunteer v is the
\* client thread and sends its own id as volunteer_id
accept_request(v, request_id) ==
  /\ acc[v].pc = "idle"
  /\ IF ~db
     THEN /\ out' = NotInitialized("accept_request")
          /\ UNCHANGED acc
     ELSE IF ~exists(request_id)
          THEN /\ out' = [op |-> "accept_request", status_code |-> 404,
                          detail |-> "Request not found"]
               /\ UNCHANGED acc
          ELSE /\ acc' = [acc EXCEPT ![v] = [pc |-> "update", request_id |-> request_id,
                                             volunteer_id |-> v]]
               /\ UNCHANGED out
  /\ UNCHANGED <<db, accounts, users, help_requests, uuids, reg>>

\* accept_request from request_ref.update(...) to the return
accept_request_update(v) ==
  /\ acc[v].pc = "update"
  /\ LET id == acc[v].request_id
     IN help_requests' =
          [d \in DOMAIN help_requests |->
             IF d = id THEN update(help_requests[d], AcceptFields(acc[v].volunteer_id))
                       ELSE help_requests[d]]
  /\ out' = [op |-> "accept_request", status_code |-> 200,
             message |-> "Request accepted successfully"]
  /\ acc' = [acc EXCEPT ![v] = AccIdle]
  /\ UNCHANGED <<db, accounts, users, uuids, reg>>

-----------------------------------------------------------------------------

Next ==
  \/ \E name \in Names, email \in Emails, phone \in Phones, id_proof \in Filenames :
       register_user(name, email, phone, id_proof)
  \/ register_user_set
  \/ \E email \in Emails, phone \in LoginPhones : login_user(email, phone)
  \/ \E request \in HelpRequest : request_help(request)
  \/ view_requests
  \/ \E v \in Volunteers, request_id \in RequestIds : accept_request(v, request_id)
  \/ \E v \in Volunteers : accept_request_update(v)

Spec == Init /\ [][Next]_vars

-----------------------------------------------------------------------------
(* Properties *)

\* C1: with the store initialised, a login whose email has a provider account
\* but whose phone differs from the provider's phone number is answered with
\* 401, and a login whose email has no account is answered with 400.
C1_MismatchUnauthorized ==
  [][\A email \in Emails, phone \in LoginPhones :
       (db /\ login_user(email, phone)) =>
         /\ (email \in DOMAIN accounts /\ accounts[email].phone_number # phone)
              => out'.status_code = 401
         /\ (email \notin DOMAIN accounts) => out'.status_code = 400]_vars

\* C2: a help request is created with status "open", is never removed, and
\* once its status is "accepted" no step of any handler sets it to anything else.
C2_StatusMonotonic ==
  [][/\ \A id \in DOMAIN help_requests :
          /\ id \in DOMAIN help_requests'
          /\ help_requests[id].status = "accepted"
               => help_requests'[id].status = "accepted"
     /\ \A id \in DOMAIN help_requests' \ DOMAIN help_requests :
          help_requests'[id].status = "open"]_vars

\* a help request was filed while an earlier one was already accepted
C2_Witness ==
  /\ out.op = "request_help"
  /\ out.status_code = 200
  /\ \E id \in DOMAIN help_requests :
       id # out.request_id /\ help_requests[id].status = "accepted"

\* C3: once a help request is accepted, no step changes its document: it is not
\* accepted again and its volunteer_id stays the one recorded first.
C3_NeverReaccepted ==
  [][\A id \in DOMAIN help_requests :
       help_requests[id].status = "accepted"
         => /\ id \in DOMAIN help_requests'
            /\ help_requests'[id] = help_requests[id]]_vars

C5_RegisteredId ==
  [][(reg.pc = "set" /\ reg'.pc = "idle") =>
       /\ out'.op = "register"
       /\ out'.status_code = 200
       /\ out'.user_id = accounts[reg.email].uid
       /\ out'.user_id # reg.candidate
       /\ out'.user_id \in DOMAIN users'
       /\ users'[out'.user_id].verified = FALSE
       /\ users'[out'.user_id].name = reg.name
       /\ users'[out'.user_id].email = reg.email
       /\ users'[out'.user_id].phone = reg.phone]_vars

\* a registration has returned its user_id
C5_Witness ==
  /\ out.op = "register"
  /\ out.status_code = 200
  /\ out.user_id \in DOMAIN users

\* C6: with the store initialised, a registration whose email already has a
\* provider account is answered with 400 "Email already registered" and leaves
\* the accounts and the user documents as they were.
C6_ConflictChangesNothing ==
  [][\A name \in Names, email \in Emails, phone \in Phones, id_proof \in Filenames :
       (db /\ email \in DOMAIN accounts /\ register_user(name, email, phone, id_proof)) =>
         /\ out'.op = "register"
         /\ out'.status_code = 400
         /\ out'.detail = "Email already registered"
         /\ reg' = reg
         /\ accounts' = accounts
         /\ users' = users]_vars

\* a second registration of a registered email was refused
C6_Witness ==
  /\ out.op = "register"
  /\ out.status_code = 400
  /\ \E e \in DOMAIN accounts : accounts[e].uid \in DOMAIN users

\* C7: with the store initialised, a login is answered with 200 exactly when
\* the email has an account whose provider phone number equals the supplied
\* phone; for an account registered with phone p (the phone in its document),
\* login with p is not answered with 200 and login with "+" followed by p is
\* answered with 200 and that account's uid.
C7_LoginPhoneRule ==
  [][\A email \in Emails, phone \in LoginPhones :
       (db /\ login_user(email, phone)) =>
         /\ out'.status_code = 200
              <=> (email \in DOMAIN accounts /\ accounts[email].phone_number = phone)
         /\ \A d \in DOMAIN users :
              (email \in DOMAIN accounts /\ accounts[email].uid = d) =>
                /\ phone = users[d].phone => out'.status_code # 200
                /\ phone = <<"+">> \o users[d].phone
                     => out'.status_code = 200 /\ out'.user_id = d]_vars

\* a login with the prefixed phone succeeded for a registered user
C7_Witness ==
  /\ out.op = "login"
  /\ out.status_code = 200
  /\ out.user_id \in DOMAIN users
  /\ \E e \in DOMAIN accounts :
       /\ accounts[e].uid = out.user_id
       /\ accounts[e].phone_number = <<"+">> \o users[out.user_id].phone

\* C8: with the store initialised, accept_request on a request_id without a
\* document is answered with 404, creates no document, leaves every help
\* request as it was and schedules no update.
C8_MissingNotFound ==
  [][\A v \in Volunteers, request_id \in RequestIds :
       (db /\ request_id \notin DOMAIN help_requests /\ accept_request(v, request_id)) =>
         /\ out'.op = "accept_request"
         /\ out'.status_code = 404
         /\ help_requests' = help_requests
         /\ acc' = acc]_vars

\* an accept of a missing id was refused while other requests exist
C8_Witness ==
  /\ out.op = "accept_request"
  /\ out.status_code = 404
  /\ DOMAIN help_requests # {}

\* C9: with the store initialised, the listing holds one entry for each help
\* request whose status is "open" and none for any other; an entry is the
\* stored document's fields plus request_id.
C9_ListsOpen ==
  [][(db /\ view_requests) =>
       /\ \A id \in DOMAIN help_requests :
            help_requests[id].status = "open"
              <=> \E r \in out'.requests : r.request_id = id
       /\ \A r \in out'.requests :
            /\ r.request_id \in DOMAIN help_requests
            /\ DOMAIN r = DOMAIN help_requests[r.request_id] \cup {"request_id"}
            /\ \A f \in DOMAIN help_requests[r.request_id] :
                 r[f] = help_requests[r.request_id][f]
       /\ \A r1, r2 \in out'.requests : r1.request_id = r2.request_id => r1 = r2]_vars

\* the latest listing shows an open request while another one is accepted
C9_Witness ==
  /\ out.op = "view_requests"
  /\ out.status_code = 200
  /\ out.requests # {}
  /\ \E id \in DOMAIN help_requests : help_requests[id].status = "accepted"

\* C10: with the store initialised, accept_request on an existing request
\* passes the existence check whatever the request's status; and every update
\* that is applied, whatever the status it finds, is answered with 200 and
\* leaves the request accepted with the volunteer_id of the call that applied it.
C10_LastWriteWins ==
  [][/\ \A v \in Volunteers, request_id \in RequestIds :
          (db /\ request_id \in DOMAIN help_requests /\ accept_request(v, request_id)) =>
            /\ acc'[v].pc = "update"
            /\ acc'[v].request_id = request_id
     /\ \A v \in Volunteers :
          (acc[v].pc = "update" /\ acc'[v].pc = "idle") =>
            /\ out'.op = "accept_request"
            /\ out'.status_code = 200
            /\ help_requests'[acc[v].request_id].status = "accepted"
            /\ help_requests'[acc[v].request_id].volunteer_id = acc[v].volunteer_id]_vars

\* one volunteer's accept has been applied and answered while the other
\* volunteer's accept of the same request is past its read
C10_Witness ==
  /\ out.op = "accept_request"
  /\ out.status_code = 200
  /\ \E v, w \in Volunteers :
       /\ v # w
       /\ acc[v].pc = "update"
       /\ acc[w].pc = "idle"
       /\ help_requests[acc[v].request_id].status = "accepted"
       /\ help_requests[acc[v].request_id].volunteer_id = w

====
